---- MODULE Spec2Model ----
(***************************************************************************)
(* tracing-dipstick: the Layer that turns the reserved metrics.* fields of *)
(* tracing spans and events into calls on a dipstick metrics scope         *)
(* (src/src/lib.rs).                                                       *)
(*                                                                         *)
(* The layer's own state is the Scope<S> value it stores in each span's    *)
(* extensions.  The subscriber (span tree, per-thread current span) and    *)
(* the metrics registry (levels, and the calls a hook issues) are modelled *)
(* as far as the layer reads them or writes to them.  Every hook is one    *)
(* action; hooks of different threads interleave.                          *)
(***************************************************************************)
EXTENDS Integers, Sequences, FiniteSets, TLC

\* ------------------------------------------------------------------ bounds
MaxSpans   == 3     \* spans created in one behaviour
MaxThreads == 2     \* threads that run hooks
MaxDepth   == 1     \* entered spans per thread (depth of the current-span stack)
MaxFields  == 2     \* fields on one span or event record
IntBits    == 2     \* width the 64-bit integers of the code are scaled to
MaxClock   == 1     \* ticks of the monotonic clock

SpanIds == 1..MaxSpans
Threads == 1..MaxThreads

\* ------------------------------------------------------- reserved field names
SCOPE_NAME      == "metrics.scope"
SCOPE_NAME_FULL == "metrics.scope.full"
VALUE           == "metrics.value"
COUNTER         == "metrics.counter"
GAUGE           == "metrics.gauge"
TIME            == "metrics.time"
LEVEL           == "metrics.level"

\* --------------------------------------------------------------- integers
\* i64 and u64 scaled to IntBits bits; usize is as wide as u64 (64-bit target).
MinI64 == -(2 ^ (IntBits - 1))
MaxI64 == (2 ^ (IntBits - 1)) - 1
MaxU64 == (2 ^ IntBits) - 1
I64 == MinI64..MaxI64
U64 == 0..MaxU64

\* `value as _` of a u64 into the i64 weight: two's complement reinterpretation.
U64AsI64(v) == IF v > MaxI64 THEN v - (2 ^ IntBits) ELSE v

\* `self.value as _` of the i64 weight into the usize argument of Counter::count.
I64AsUsize(v) == v % (2 ^ IntBits)

\* `-scope.value` without overflow checks: wrapping negation.
WrappingNeg(v) == IF v = MinI64 THEN MinI64 ELSE -v

\* ----------------------------------------------------------------- records
\* A field of a span's Attributes or of an Event: its name, the Visit method
\* its value is dispatched to (kind), and the value.
StrField(n, s) == [name |-> n, kind |-> "str", str |-> s, num |-> 0]
I64Field(n, v) == [name |-> n, kind |-> "i64", str |-> "", num |-> v]
U64Field(n, v) == [name |-> n, kind |-> "u64", str |-> "", num |-> v]
\* bool, f64, Debug values: dispatched to record_debug
OtherField(n)  == [name |-> n, kind |-> "other", str |-> "", num |-> 0]

ScopeNames  == {"a", "b"}
MetricNames == {"m", "n"}

NamingFields ==
    {StrField(SCOPE_NAME, n) : n \in ScopeNames}
        \cup {StrField(SCOPE_NAME_FULL, "x"), OtherField(SCOPE_NAME)}
ValueFields ==
    {I64Field(VALUE, v) : v \in I64} \cup {U64Field(VALUE, v) : v \in U64}
        \cup {StrField(VALUE, "m")}
ActionFields ==
    {StrField(k, n) : k \in {TIME, LEVEL, COUNTER, GAUGE}, n \in MetricNames}
        \cup {OtherField(LEVEL), StrField("foo.bar", "m")}
Fields == NamingFields \cup ValueFields \cup ActionFields

SeqsUpTo(S, n) == UNION {[1..k -> S] : k \in 0..n}
Records == SeqsUpTo(Fields, MaxFields)

\* ------------------------------------------------------------------ scopes
\* A dipstick scope handle is identified by its name parts.
RootScope == <<"app">>

\* Prefixed::add_name: append a name to the existing names.
AddName(scope, n) == Append(scope, n)
\* Prefixed::named: replace any existing names with a single name.
Named(scope, n) == <<n>>

None == <<>>
Some(x) == <<x>>

VARIABLES
    spans,      \* subscriber: span id -> [status, parent]
    exts,       \* span id -> the Scope<S> in the span's extensions (None or Some)
    stack,      \* subscriber: thread -> stack of entered spans, current one last
    levels,     \* registry: <<scope, name>> -> sum of the amounts adjusted
    clock,      \* the monotonic clock read by Timer::start and Timer::stop
    calls,      \* registry calls issued by the most recent step
    last        \* the most recent step: hook, thread, span, record, outcome

vars == <<spans, exts, stack, levels, clock, calls, last>>

\* ---------------------------------------------------------------- visitors
\* attrs.record(&mut v) / event.record(&mut v): the fields are visited in the
\* record's own order, each dispatched on the type of its value.

\* NameVisitor::record_str: the last naming field visited sets the target.
NameVisitorRecordStr(target, src, f) ==
    IF f.name = SCOPE_NAME THEN Some(AddName(src, f.str))
    ELSE IF f.name = SCOPE_NAME_FULL THEN Some(Named(src, f.str))
    ELSE target

RECURSIVE NameVisit(_, _, _)
NameVisit(target, src, rec) ==
    IF rec = <<>> THEN target
    ELSE NameVisit(
            IF Head(rec).kind = "str"
                THEN NameVisitorRecordStr(target, src, Head(rec))
                ELSE target,
            src, Tail(rec))

\* The closure `named` of new_span: the scope the record names, else a clone.
NamedScope(scope, rec) ==
    LET named == NameVisit(None, scope, rec)
    IN  IF named = None THEN scope ELSE named[1]

\* ValueVisitor::record_i64 and record_u64.
ValueVisitorRecordI64(value, f) == IF f.name = VALUE THEN f.num ELSE value
ValueVisitorRecordU64(value, f) == IF f.name = VALUE THEN U64AsI64(f.num) ELSE value

RECURSIVE ValueVisit(_, _)
ValueVisit(value, rec) ==
    IF rec = <<>> THEN value
    ELSE ValueVisit(
            IF Head(rec).kind = "i64" THEN ValueVisitorRecordI64(value, Head(rec))
            ELSE IF Head(rec).kind = "u64" THEN ValueVisitorRecordU64(value, Head(rec))
            ELSE value,
            Tail(rec))

\* A call on the metrics registry.
Call(op, scope, name, arg) == [op |-> op, scope |-> scope, name |-> name, arg |-> arg]

\* Scope<S>::record_str.  st = [ctx, calls]: the Scope being built and the
\* registry calls issued so far.
ScopeRecordStr(st, f) ==
    LET c == st.ctx IN
    IF f.name = TIME THEN
        [ctx   |-> [c EXCEPT !.timer =
                        Some([scope |-> c.scope, name |-> f.str, start |-> clock])],
         calls |-> Append(st.calls, Call("start", c.scope, f.str, clock))]
    ELSE IF f.name = LEVEL THEN
        [ctx   |-> [c EXCEPT !.level = Some([scope |-> c.scope, name |-> f.str])],
         calls |-> Append(st.calls, Call("adjust", c.scope, f.str, c.value))]
    ELSE IF f.name = COUNTER THEN
        [st EXCEPT !.calls = Append(@, Call("count", c.scope, f.str, I64AsUsize(c.value)))]
    ELSE IF f.name = GAUGE THEN
        [st EXCEPT !.calls = Append(@, Call("value", c.scope, f.str, c.value))]
    ELSE st

\* The fields visited without regard to the type of their value: every field
\* reaches record_str.
RECURSIVE ScopeVisitAnyKind(_, _)
ScopeVisitAnyKind(st, rec) ==
    IF rec = <<>> THEN st
    ELSE ScopeVisitAnyKind(ScopeRecordStr(st, Head(rec)), Tail(rec))

RECURSIVE ScopeVisit(_, _)
ScopeVisit(st, rec) ==
    IF rec = <<>> THEN st
    ELSE ScopeVisit(
            IF Head(rec).kind = "str" THEN ScopeRecordStr(st, Head(rec)) ELSE st,
            Tail(rec))

\* MetricVisitor::record_str of on_event.
MetricVisitorRecordStr(out, scope, value, f) ==
    IF f.name = COUNTER THEN Append(out, Call("count", scope, f.str, I64AsUsize(value)))
    ELSE IF f.name = GAUGE THEN Append(out, Call("value", scope, f.str, value))
    ELSE out

RECURSIVE MetricVisit(_, _, _, _)
MetricVisit(out, scope, value, rec) ==
    IF rec = <<>> THEN out
    ELSE MetricVisit(
            IF Head(rec).kind = "str"
                THEN MetricVisitorRecordStr(out, scope, value, Head(rec))
                ELSE out,
            scope, value, Tail(rec))

\* ---------------------------------------------------------------- registry
LevelValue(lv, key) == IF key \in DOMAIN lv THEN lv[key] ELSE 0

\* Level::adjust: the registry adds the amount to the named level.
Adjust(lv, c) ==
    LET key == <<c.scope, c.name>>
    IN  [k \in DOMAIN lv \cup {key} |->
            IF k = key THEN LevelValue(lv, key) + c.arg ELSE lv[k]]

RECURSIVE ApplyCalls(_, _)
ApplyCalls(lv, cs) ==
    IF cs = <<>> THEN lv
    ELSE ApplyCalls(IF Head(cs).op = "adjust" THEN Adjust(lv, Head(cs)) ELSE lv,
                    Tail(cs))

\* -------------------------------------------------------------- subscriber
\* ctx.lookup_current(): the span the calling thread has entered last, 0 if none.
LookupCurrent(t) == IF stack[t] = <<>> THEN 0 ELSE stack[t][Len(stack[t])]

Live(s) == spans[s].status = "live"
Entered(s) == \E t \in Threads : \E i \in 1..Len(stack[t]) : stack[t][i] = s
HasLiveChild(s) == \E c \in SpanIds : Live(c) /\ spans[c].parent = s
NextId == Cardinality({s \in SpanIds : spans[s].status # "unused"}) + 1

\* Attributes::parent: root, contextual (the current span), or an explicit span.
ParentChoices ==
    {[kind |-> "root", id |-> 0], [kind |-> "current", id |-> 0]}
        \cup {[kind |-> "explicit", id |-> p] : p \in {s \in SpanIds : Live(s)}}
ParentOf(t, par) ==
    IF par.kind = "current" THEN LookupCurrent(t) ELSE par.id

NoParent == [kind |-> "root", id |-> 0]
\* A hook's invocation: the span it is about (id), the current span of the
\* calling thread (cur), the parent and the record it is given, its outcome.
Step(op, id, cur, par, rec, panic) ==
    [op |-> op, id |-> id, cur |-> cur, par |-> par, rec |-> rec, panic |-> panic]
\* A step of the subscriber or of the clock, in which no hook of the layer runs.
Env == Step("env", 0, 0, NoParent, <<>>, FALSE)

Init ==
    /\ spans = [s \in SpanIds |-> [status |-> "unused", parent |-> 0]]
    /\ exts = [s \in SpanIds |-> None]
    /\ stack = [t \in Threads |-> <<>>]
    /\ levels = <<>>
    /\ clock = 0
    /\ calls = <<>>
    /\ last = Env

\* The scope new_span derives the new span's scope from: the stored scope of
\* the calling thread's current span, and the layer's scope when there is no
\* current span or it holds no Scope<S>.
BaseScope(t) ==
    LET current == LookupCurrent(t)
    IN  IF current # 0 /\ exts[current] # None
            THEN exts[current][1].scope
            ELSE RootScope

\* new_span applying the record's actions before the rename: in the scope the
\* span's scope is derived from.
NewSpanActingInBase(t, par, rec) ==
    LET id    == NextId
        ctx0  == [scope |-> BaseScope(t), timer |-> None, level |-> None,
                  value |-> ValueVisit(1, rec)]
        st    == ScopeVisit([ctx |-> ctx0, calls |-> <<>>], rec)
    IN  /\ id \in SpanIds
        /\ spans' = [spans EXCEPT ![id] = [status |-> "live", parent |-> ParentOf(t, par)]]
        /\ exts' = [exts EXCEPT ![id] =
                        Some([st.ctx EXCEPT !.scope = NamedScope(BaseScope(t), rec)])]
        /\ calls' = st.calls
        /\ levels' = ApplyCalls(levels, st.calls)
        /\ last' = Step("new_span", id, LookupCurrent(t), par, rec, FALSE)
        /\ UNCHANGED <<stack, clock>>

\* DipstickLayer::new_span
NewSpan(t, par, rec) ==
    LET id    == NextId
        scope == NamedScope(BaseScope(t), rec)
        ctx0  == [scope |-> scope, timer |-> None, level |-> None,
                  value |-> ValueVisit(1, rec)]
        st    == ScopeVisit([ctx |-> ctx0, calls |-> <<>>], rec)
    IN  /\ id \in SpanIds
        /\ spans' = [spans EXCEPT ![id] = [status |-> "live", parent |-> ParentOf(t, par)]]
        /\ exts' = [exts EXCEPT ![id] = Some(st.ctx)]
        /\ calls' = st.calls
        /\ levels' = ApplyCalls(levels, st.calls)
        /\ last' = Step("new_span", id, LookupCurrent(t), par, rec, FALSE)
        /\ UNCHANGED <<stack, clock>>

\* A span the subscriber creates while the layer is not consulted (the layer
\* is installed or switched on later): it has no Scope<S> in its extensions.
NewSpanUnseen(t, par) ==
    LET id == NextId
    IN  /\ id \in SpanIds
        /\ spans' = [spans EXCEPT ![id] = [status |-> "live", parent |-> ParentOf(t, par)]]
        /\ calls' = <<>>
        /\ last' = Step("unseen", id, LookupCurrent(t), par, <<>>, FALSE)
        /\ UNCHANGED <<exts, stack, levels, clock>>

\* The scope on_event applies the event's instructions in, None when the
\* current span holds no Scope<S> (`expect("Missing prepared scope")`).
EventScope(t) ==
    LET current == LookupCurrent(t)
    IN  IF current = 0 THEN Some(RootScope)
        ELSE IF exts[current] = None THEN None
        ELSE Some(exts[current][1].scope)

\* on_event routing the event's fields through Scope<S>::record_str, as
\* new_span does with a span's fields.
OnEventThroughScope(t, rec) ==
    LET scope == EventScope(t)
        ctx0  == [scope |-> IF scope = None THEN RootScope ELSE scope[1],
                  timer |-> None, level |-> None, value |-> ValueVisit(1, rec)]
    IN  /\ calls' = IF scope = None THEN <<>>
                    ELSE ScopeVisit([ctx |-> ctx0, calls |-> <<>>], rec).calls
        /\ last' = Step("on_event", 0, LookupCurrent(t), NoParent, rec, scope = None)
        /\ UNCHANGED <<spans, exts, stack, levels, clock>>

\* DipstickLayer::on_event
OnEvent(t, rec) ==
    LET scope == EventScope(t)
    IN  /\ calls' = IF scope = None THEN <<>>
                    ELSE MetricVisit(<<>>, scope[1], ValueVisit(1, rec), rec)
        /\ last' = Step("on_event", 0, LookupCurrent(t), NoParent, rec, scope = None)
        /\ UNCHANGED <<spans, exts, stack, levels, clock>>

\* on_close stopping the timer with a marker taken at close instead of the
\* stored one (`timer.stop(timer.start())`).
CloseCallsFreshMarker(ctx, checks) ==
    LET stop == IF ctx.timer = None THEN <<>>
                ELSE <<Call("stop", ctx.timer[1].scope, ctx.timer[1].name, clock)>>
    IN  IF ctx.level = None THEN [calls |-> stop, panic |-> FALSE]
        ELSE IF ctx.value = MinI64 /\ checks THEN [calls |-> stop, panic |-> TRUE]
        ELSE [calls |-> Append(stop, Call("adjust", ctx.level[1].scope,
                                          ctx.level[1].name, WrappingNeg(ctx.value))),
              panic |-> FALSE]

\* on_close also undoing what the span did at its start outside its timer and
\* its level: it sets a gauge of the span's scope back.
CloseCallsResettingGauge(ctx, checks) ==
    LET stop == IF ctx.timer = None THEN <<>>
                ELSE <<Call("stop", ctx.timer[1].scope, ctx.timer[1].name,
                            ctx.timer[1].start)>>
        undo == <<Call("value", ctx.scope, "m", 0)>>
    IN  IF ctx.level = None THEN [calls |-> stop \o undo, panic |-> FALSE]
        ELSE IF ctx.value = MinI64 /\ checks THEN [calls |-> stop, panic |-> TRUE]
        ELSE [calls |-> Append(stop, Call("adjust", ctx.level[1].scope,
                                          ctx.level[1].name, WrappingNeg(ctx.value)))
                            \o undo,
              panic |-> FALSE]

\* The registry calls of on_close for a span holding ctx.  `-scope.value`
\* overflows for the least i64: the hook panics there when overflow checks are
\* compiled in (checks) and negates wrapping when they are not.
CloseCalls(ctx, checks) ==
    LET stop == IF ctx.timer = None THEN <<>>
                ELSE <<Call("stop", ctx.timer[1].scope, ctx.timer[1].name,
                            ctx.timer[1].start)>>
    IN  IF ctx.level = None THEN [calls |-> stop, panic |-> FALSE]
        ELSE IF ctx.value = MinI64 /\ checks THEN [calls |-> stop, panic |-> TRUE]
        ELSE [calls |-> Append(stop, Call("adjust", ctx.level[1].scope,
                                          ctx.level[1].name, WrappingNeg(ctx.value))),
              panic |-> FALSE]

\* on_close skipping a span that holds no Scope<S> instead of aborting
\* (`if let Some(scope) = exts.get()`).
OnCloseSkippingMissing(s, checks) ==
    LET out == IF exts[s] = None THEN [calls |-> <<>>, panic |-> FALSE]
               ELSE CloseCalls(exts[s][1], checks)
    IN  /\ Live(s) /\ ~Entered(s) /\ ~HasLiveChild(s)
        /\ calls' = out.calls
        /\ levels' = ApplyCalls(levels, out.calls)
        /\ spans' = [spans EXCEPT ![s] = [status |-> "closed", parent |-> 0]]
        /\ exts' = [exts EXCEPT ![s] = None]
        /\ last' = Step("on_close", s, 0, NoParent, <<>>, out.panic)
        /\ UNCHANGED <<stack, clock>>

\* on_close after which the span's extensions still hold the Scope<S>.
OnCloseKeepingContext(s, checks) ==
    LET out == IF exts[s] = None THEN [calls |-> <<>>, panic |-> TRUE]
               ELSE CloseCalls(exts[s][1], checks)
    IN  /\ Live(s) /\ ~Entered(s) /\ ~HasLiveChild(s)
        /\ calls' = out.calls
        /\ levels' = ApplyCalls(levels, out.calls)
        /\ spans' = [spans EXCEPT ![s] = [status |-> "closed", parent |-> 0]]
        /\ last' = Step("on_close", s, 0, NoParent, <<>>, out.panic)
        /\ UNCHANGED <<exts, stack, clock>>

\* DipstickLayer::on_close, called by the subscriber when the last handle of a
\* span is dropped; the subscriber then removes the span and its extensions.
OnClose(s, checks) ==
    LET out == IF exts[s] = None THEN [calls |-> <<>>, panic |-> TRUE]
               ELSE CloseCalls(exts[s][1], checks)
    IN  /\ Live(s) /\ ~Entered(s) /\ ~HasLiveChild(s)
        /\ calls' = out.calls
        /\ levels' = ApplyCalls(levels, out.calls)
        /\ spans' = [spans EXCEPT ![s] = [status |-> "closed", parent |-> 0]]
        /\ exts' = [exts EXCEPT ![s] = None]
        /\ last' = Step("on_close", s, 0, NoParent, <<>>, out.panic)
        /\ UNCHANGED <<stack, clock>>

\* The subscriber's enter and exit: they move the thread's current span.
Enter(t, s) ==
    /\ Live(s) /\ Len(stack[t]) < MaxDepth
    /\ stack' = [stack EXCEPT ![t] = Append(@, s)]
    /\ calls' = <<>>
    /\ last' = Env
    /\ UNCHANGED <<spans, exts, levels, clock>>

Exit(t) ==
    /\ stack[t] # <<>>
    /\ stack' = [stack EXCEPT ![t] = SubSeq(@, 1, Len(@) - 1)]
    /\ calls' = <<>>
    /\ last' = Env
    /\ UNCHANGED <<spans, exts, levels, clock>>

Tick ==
    /\ clock < MaxClock
    /\ clock' = clock + 1
    /\ calls' = <<>>
    /\ last' = Env
    /\ UNCHANGED <<spans, exts, stack, levels>>

\* new_span for one of the first n spans, its record drawn from recs and the
\* parent it declares from the kinds in parents.
SpanHook(recs, parents, n) ==
    \E t \in Threads, par \in ParentChoices, rec \in recs :
        NextId <= n /\ par.kind \in parents /\ NewSpan(t, par, rec)

Unseen(parents, n) ==
    \E t \in Threads, par \in ParentChoices :
        NextId <= n /\ par.kind \in parents /\ NewSpanUnseen(t, par)

EventHook(recs) == \E t \in Threads, rec \in recs : OnEvent(t, rec)

CloseHook == \E s \in SpanIds, checks \in BOOLEAN : OnClose(s, checks)

\* The subscriber moving the threads' current spans.
Subscriber ==
    \/ \E t \in Threads, s \in SpanIds : Enter(t, s)
    \/ \E t \in Threads : Exit(t)

ParentKinds == {"root", "current", "explicit"}

Next ==
    \/ SpanHook(Records, ParentKinds, MaxSpans)
    \/ EventHook(Records)
    \/ CloseHook
    \/ Subscriber
    \/ Unseen(ParentKinds, MaxSpans)
    \/ Tick

Spec == Init /\ [][Next]_vars

\* The specifications the properties are checked under: Spec with the records
\* drawn from the fields a group of properties is about, and without the
\* environment steps that those hooks cannot observe.
Rename(n) == StrField(SCOPE_NAME, n)
Absolute(n) == StrField(SCOPE_NAME_FULL, n)
Weight(v) == I64Field(VALUE, v)
Metric(kind) == StrField(kind, "m")

NoRecords == {<<>>}

\* scopes: renames on spans, every kind of parent, spans without a Scope<S>
NamingRecords == SeqsUpTo({Rename("a"), Rename("b"), Absolute("x")}, MaxFields)
NextNaming ==
    \/ SpanHook(NamingRecords, ParentKinds, MaxSpans)
    \/ EventHook(NoRecords)
    \/ CloseHook
    \/ Subscriber
    \/ Unseen(ParentKinds, MaxSpans)
SpecNaming == Init /\ [][NextNaming]_vars

\* The string fields of rec that carry the reserved name.
StrFields(rec, name) == SelectSeq(rec, LAMBDA f : f.kind = "str" /\ f.name = name)

\* levels: weights and at most one level instruction on each of the nested and
\* unrelated spans
LevelRecords ==
    {rec \in SeqsUpTo({Weight(v) : v \in I64} \cup {Metric(LEVEL)}, MaxFields) :
        Len(StrFields(rec, LEVEL)) <= 1}
NextLevels ==
    \/ SpanHook(LevelRecords, {"current"}, MaxSpans)
    \/ EventHook(NoRecords)
    \/ CloseHook
    \/ Subscriber
SpecLevels == Init /\ [][NextLevels]_vars

\* timers: the clock advances; one record also holds a level whose reversal
\* overflows at close
OverflowingLevel == <<Weight(MinI64), Metric(LEVEL)>>
TimerRecords ==
    SeqsUpTo({Metric(TIME), Rename("a")}, MaxFields)
        \cup {OverflowingLevel \o <<Metric(TIME)>>}
NextTimers ==
    \/ SpanHook(TimerRecords, {"current"}, MaxSpans)
    \/ EventHook(NoRecords)
    \/ CloseHook
    \/ Subscriber
    \/ Tick
SpecTimers == Init /\ [][NextTimers]_vars

\* events: counters, gauges and weights on events, in and out of renamed and
\* weighted spans and spans without a Scope<S>
EventRecords ==
    SeqsUpTo({Weight(v) : v \in I64}
                \cup {U64Field(VALUE, MaxU64), Metric(COUNTER), Metric(GAUGE)},
             MaxFields)
EventSpanRecords == SeqsUpTo({Rename("a"), Weight(0)}, MaxFields)
NextEvents ==
    \/ SpanHook(EventSpanRecords, {"current"}, MaxSpans - 1)
    \/ EventHook(EventRecords)
    \/ CloseHook
    \/ Subscriber
    \/ Unseen({"current"}, MaxSpans - 1)
SpecEvents == Init /\ [][NextEvents]_vars

\* closing: timers, levels, counters and gauges declared on spans, spans
\* without a Scope<S>, the clock; no weight whose negation overflows
ClosingRecords ==
    SeqsUpTo({Metric(TIME), Metric(LEVEL), Metric(COUNTER), Metric(GAUGE), Weight(-1)},
             MaxFields)
NextClosing ==
    \/ SpanHook(ClosingRecords, {"current"}, MaxSpans - 1)
    \/ EventHook(NoRecords)
    \/ CloseHook
    \/ Subscriber
    \/ Unseen({"current"}, MaxSpans)
    \/ Tick
SpecClosing == Init /\ [][NextClosing]_vars

\* bare events: timer and level fields on events, in and out of spans that hold
\* an open timer and an open level
BareEventRecords ==
    SeqsUpTo({Metric(TIME), Metric(LEVEL), Metric(COUNTER), Metric(GAUGE)}, MaxFields)
BareEventSpanRecords == SeqsUpTo({Metric(TIME), Metric(LEVEL), Rename("a")}, MaxFields)
NextBareEvents ==
    \/ SpanHook(BareEventSpanRecords, {"current"}, MaxSpans - 1)
    \/ EventHook(BareEventRecords)
    \/ CloseHook
    \/ Subscriber
SpecBareEvents == Init /\ [][NextBareEvents]_vars

\* malformed fields: unknown names, reserved string fields with a value that
\* is not a string, metrics.value with a value that is not an integer, alone
\* and next to the fields they could be taken for
MalformedFields ==
    {StrField("foo.bar", "m"), I64Field("foo.bar", 0),
     OtherField(SCOPE_NAME), OtherField(SCOPE_NAME_FULL),
     OtherField(TIME), I64Field(LEVEL, 0), U64Field(COUNTER, 0), OtherField(GAUGE),
     StrField(VALUE, "m"), OtherField(VALUE)}
TypedFields == {Rename("a"), Weight(0), Metric(LEVEL), Metric(COUNTER)}
MalformedRecords ==
    {rec \in SeqsUpTo(MalformedFields \cup TypedFields, MaxFields) :
        \E i \in 1..Len(rec) : rec[i] \in MalformedFields}
NextMalformed ==
    \/ SpanHook(MalformedRecords, {"current"}, MaxSpans - 2)
    \/ EventHook(MalformedRecords)
    \/ CloseHook
    \/ Subscriber
SpecMalformed == Init /\ [][NextMalformed]_vars

\* renamed actions: spans that rename their scope and declare an action, under
\* the root and under renamed spans, with every kind of parent
ScopedRecords ==
    SeqsUpTo({Rename("a"), Absolute("x"),
              Metric(TIME), Metric(LEVEL), Metric(COUNTER), Metric(GAUGE)}, MaxFields)
NextScoped ==
    \/ SpanHook(ScopedRecords, ParentKinds, MaxSpans - 1)
    \/ EventHook(NoRecords)
    \/ CloseHook
    \/ Subscriber
SpecScoped == Init /\ [][NextScoped]_vars

\* weights: every signed and unsigned metrics.value before and after a level,
\* counter or gauge field, on spans and on events
WeightFields == {Weight(v) : v \in I64} \cup {U64Field(VALUE, v) : v \in U64}
WeightedSpanRecords ==
    SeqsUpTo(WeightFields \cup {Metric(LEVEL), Metric(COUNTER), Metric(GAUGE)}, MaxFields)
WeightedEventRecords ==
    SeqsUpTo(WeightFields \cup {Metric(COUNTER), Metric(GAUGE)}, MaxFields)
NextWeights ==
    \/ SpanHook(WeightedSpanRecords, {"current"}, MaxSpans - 2)
    \/ EventHook(WeightedEventRecords)
    \/ CloseHook
    \/ Subscriber
SpecWeights == Init /\ [][NextWeights]_vars

\* several instructions: up to two timer and level fields on one span, under
\* the same or different names, with the default weight, a negative weight and
\* the least weight
SeveralLevels == <<Metric(LEVEL), StrField(LEVEL, "n")>>
SeveralRecords ==
    SeqsUpTo({StrField(k, n) : k \in {TIME, LEVEL}, n \in MetricNames}, MaxFields)
        \cup {<<Weight(v)>> \o SeveralLevels : v \in {MinI64, -1}}
NextSeveral ==
    \/ SpanHook(SeveralRecords, {"current"}, MaxSpans - 1)
    \/ EventHook(NoRecords)
    \/ CloseHook
    \/ Subscriber
    \/ Tick
SpecSeveral == Init /\ [][NextSeveral]_vars

\* ============================================================== properties
OfKind(cs, op) == SelectSeq(cs, LAMBDA c : c.op = op)
Ctx(s) == exts[s][1]
HasCtx(s) == s # 0 /\ exts[s] # None

RECURSIVE SumOver(_, _)
SumOver(S, f) ==
    IF S = {} THEN 0
    ELSE LET x == CHOOSE y \in S : TRUE IN f[x] + SumOver(S \ {x}, f)

\* The spans that are created and not yet closed and hold the level key.
Holding(key) ==
    {s \in SpanIds : Live(s) /\ exts[s] # None
        /\ Ctx(s).level = Some([scope |-> key[1], name |-> key[2]])}

\* C1: when every span declares at most one metrics.level field, each level
\* reads, in every reachable state, its initial value 0 plus the sum of the
\* weights of the spans that named it and are created and not yet closed.
C1_LevelIsSumOfOpenWeights ==
    \A key \in DOMAIN levels :
        levels[key] = SumOver(Holding(key), [s \in SpanIds |->
                                                IF exts[s] = None THEN 0 ELSE Ctx(s).value])

\* C2: on_close of a span that holds a level adjusts that level once, by
\* exactly -w, w being the weight stored when the span was created, for every
\* i64 weight w.
C2_CloseAdjustsByMinusWeight ==
    [][(last'.op = "on_close" /\ HasCtx(last'.id) /\ Ctx(last'.id).level # None)
        => OfKind(calls', "adjust")
            = <<Call("adjust", Ctx(last'.id).level[1].scope,
                     Ctx(last'.id).level[1].name, -Ctx(last'.id).value)>>]_vars

\* C3: a step issues a timer stop iff it is the on_close of a span holding a
\* timer, and then issues exactly one, on the timer and with the start marker
\* stored since new_span, which is not later than the clock; new_span stores the
\* timer of the record's metrics.time field with the clock as start marker;
\* on_close runs on live spans only and closes them for good.
C3_OneStopAtClose ==
    [][/\ OfKind(calls', "stop")
            = IF last'.op = "on_close" /\ HasCtx(last'.id) /\ Ctx(last'.id).timer # None
                THEN <<Call("stop", Ctx(last'.id).timer[1].scope,
                            Ctx(last'.id).timer[1].name, Ctx(last'.id).timer[1].start)>>
                ELSE <<>>
       /\ \A c \in {calls'[i] : i \in 1..Len(calls')} : c.op = "stop" => c.arg <= clock'
       /\ (last'.op = "new_span" /\ Len(StrFields(last'.rec, TIME)) = 1)
            => exts'[last'.id][1].timer
                = Some([scope |-> exts'[last'.id][1].scope,
                        name |-> StrFields(last'.rec, TIME)[1].str,
                        start |-> clock])
       /\ last'.op = "on_close"
            => Live(last'.id) /\ spans'[last'.id].status = "closed"
       /\ \A s \in SpanIds :
            /\ spans[s].status = "closed" => spans'[s].status = "closed"
            /\ (Live(s) /\ spans'[s].status = "live") => exts'[s] = exts[s]]_vars

\* A span with one metrics.time field has been closed after the clock advanced:
\* its timer was stopped with the earlier start marker, in an on_close that
\* then aborted on the reversal of its level.
C3_Witness ==
    /\ last.op = "on_close"
    /\ last.panic
    /\ Len(OfKind(calls, "stop")) = 1
    /\ calls[1].arg < clock

\* The naming fields of a record.
Relatives(rec) == StrFields(rec, SCOPE_NAME)
Absolutes(rec) == StrFields(rec, SCOPE_NAME_FULL)

\* C4: a new span whose parent holds a scope resolves to the parent's scope with
\* n appended when its only naming field is metrics.scope = n, and to the
\* parent's scope unchanged when it has no naming field.
C4_RelativeRenameComposes ==
    [][(last'.op = "new_span" /\ HasCtx(spans'[last'.id].parent)
            /\ Absolutes(last'.rec) = <<>> /\ Len(Relatives(last'.rec)) <= 1)
        => exts'[last'.id][1].scope
            = IF Relatives(last'.rec) = <<>>
                THEN Ctx(spans'[last'.id].parent).scope
                ELSE Append(Ctx(spans'[last'.id].parent).scope,
                            Relatives(last'.rec)[1].str)]_vars

\* C5: a new span whose only naming field is metrics.scope.full = n resolves to
\* the scope n whatever its parent, and a span created under a parent that
\* resolved to n derives its scope from n: n itself without a naming field, n
\* with m appended with metrics.scope = m.
C5_AbsoluteRenameOverrides ==
    [][last'.op = "new_span" =>
        /\ (Relatives(last'.rec) = <<>> /\ Len(Absolutes(last'.rec)) = 1)
            => exts'[last'.id][1].scope = <<Absolutes(last'.rec)[1].str>>
        /\ (HasCtx(spans'[last'.id].parent)
                /\ Ctx(spans'[last'.id].parent).scope = <<"x">>
                /\ Absolutes(last'.rec) = <<>> /\ Len(Relatives(last'.rec)) <= 1)
            => exts'[last'.id][1].scope
                = IF Relatives(last'.rec) = <<>> THEN <<"x">>
                  ELSE <<"x", Relatives(last'.rec)[1].str>>]_vars

\* C6: a new span carrying both metrics.scope.full = n and metrics.scope = m
\* resolves to the scope n, in whichever order the two fields are.
C6_AbsoluteWinsInAnyOrder ==
    [][(last'.op = "new_span" /\ Len(Absolutes(last'.rec)) = 1
            /\ Len(Relatives(last'.rec)) = 1)
        => exts'[last'.id][1].scope = <<Absolutes(last'.rec)[1].str>>]_vars

\* The stored scope of the nearest span holding one among p and its ancestors,
\* the root scope when there is none.
RECURSIVE AncestorScope(_)
AncestorScope(p) ==
    IF p = 0 THEN RootScope
    ELSE IF exts[p] # None THEN Ctx(p).scope
    ELSE AncestorScope(spans[p].parent)

\* C7: the scope a new span's naming fields are applied to is the stored scope
\* of its nearest ancestor holding one, and the root scope when no ancestor
\* holds one.
C7_BaseIsNearestAncestor ==
    [][last'.op = "new_span"
        => exts'[last'.id][1].scope
            = NamedScope(AncestorScope(spans'[last'.id].parent), last'.rec)]_vars

\* The weight a record declares: its last integer metrics.value, 1 without one.
DeclaredWeight(rec) ==
    LET vs == SelectSeq(rec, LAMBDA f : f.name = VALUE /\ f.kind \in {"i64", "u64"})
    IN  IF vs = <<>> THEN 1 ELSE vs[Len(vs)].num

\* The calls the counter and gauge fields of rec ask for, in scope, weighted w.
RECURSIVE Instructions(_, _, _)
Instructions(rec, scope, w) ==
    IF rec = <<>> THEN <<>>
    ELSE LET f == Head(rec)
             rest == Instructions(Tail(rec), scope, w)
         IN  IF f.kind = "str" /\ f.name = COUNTER
                THEN <<Call("count", scope, f.str, w)>> \o rest
             ELSE IF f.kind = "str" /\ f.name = GAUGE
                THEN <<Call("value", scope, f.str, w)>> \o rest
             ELSE rest

\* C8: an event recorded while the thread has no current span adds the weight
\* the event declares to the counters its metrics.counter fields name in the
\* root scope, and to no other counter.
C8_RootCounterByEventWeight ==
    [][(last'.op = "on_event" /\ last'.cur = 0)
        => OfKind(calls', "count")
            = OfKind(Instructions(last'.rec, RootScope, DeclaredWeight(last'.rec)),
                     "count")]_vars

\* C9: an event recorded while the thread's current span holds a scope applies
\* its counter and gauge fields in that scope, with the weight the event
\* declares.
C9_EventInSpanScope ==
    [][(last'.op = "on_event" /\ HasCtx(last'.cur))
        => calls' = Instructions(last'.rec, Ctx(last'.cur).scope,
                                 DeclaredWeight(last'.rec))]_vars

\* C10: on_event never aborts: an event recorded while the current span holds
\* no scope is applied in the scope of the nearest ancestor holding one, else
\* in the root scope.
C10_EventNeverAborts ==
    [][last'.op = "on_event"
        => /\ ~last'.panic
           /\ (last'.cur # 0 /\ exts[last'.cur] = None)
                => calls' = MetricVisit(<<>>, AncestorScope(last'.cur),
                                        ValueVisit(1, last'.rec), last'.rec)]_vars

\* C11: on_close of a span that holds no stored context aborts, and that step
\* issues no timer stop and no level adjustment and leaves every level as it
\* was.
C11_CloseWithoutContextAborts ==
    [][(last'.op = "on_close" /\ exts[last'.id] = None)
        => /\ last'.panic
           /\ calls' = <<>>
           /\ levels' = levels]_vars

\* A span without a stored context has been closed while a level was raised:
\* the hook aborted and issued nothing.  (No record of SpecClosing carries the
\* weight whose negation overflows, so only a missing context aborts there.)
C11_Witness ==
    /\ last.op = "on_close"
    /\ last.panic
    /\ calls = <<>>
    /\ \E key \in DOMAIN levels : levels[key] # 0

C13_EventOnlyCountsAndGauges ==
    [][last'.op = "on_event"
        => /\ \A i \in 1..Len(calls') : calls'[i].op \in {"count", "value"}
           /\ Len(calls') = Len(StrFields(last'.rec, COUNTER))
                                + Len(StrFields(last'.rec, GAUGE))
           /\ exts' = exts
           /\ levels' = levels
           /\ spans' = spans]_vars

\* An event carrying metrics.time and metrics.level has been handled in a span
\* that holds an open timer and an open level: nothing was issued.
C13_Witness ==
    /\ last.op = "on_event"
    /\ Len(StrFields(last.rec, TIME)) = 1
    /\ Len(StrFields(last.rec, LEVEL)) = 1
    /\ HasCtx(last.cur)
    /\ Ctx(last.cur).timer # None
    /\ Ctx(last.cur).level # None
    /\ calls = <<>>

\* A correctly typed reserved field: a string under one of the scope and action
\* names, or an integer under metrics.value.
Typed(f) ==
    \/ f.kind = "str"
        /\ f.name \in {SCOPE_NAME, SCOPE_NAME_FULL, COUNTER, GAUGE, TIME, LEVEL}
    \/ f.kind \in {"i64", "u64"} /\ f.name = VALUE
\* The record without the fields that are not correctly typed reserved fields.
TypedOnly(rec) == SelectSeq(rec, Typed)

\* C14: new_span and on_event act on a record exactly as on the record without
\* its fields that are not correctly typed reserved fields: the same registry
\* calls, the same stored scope, weight, timer and level, and no abort; a
\* record of such fields only issues no call and leaves scope and weight at
\* their defaults.
C14_MalformedFieldsIgnored ==
    [][/\ last'.op = "new_span" =>
            LET base == IF HasCtx(last'.cur) THEN Ctx(last'.cur).scope ELSE RootScope
                rec  == TypedOnly(last'.rec)
                ctx0 == [scope |-> NamedScope(base, rec), timer |-> None,
                         level |-> None, value |-> ValueVisit(1, rec)]
                st   == ScopeVisit([ctx |-> ctx0, calls |-> <<>>], rec)
            IN  /\ ~last'.panic
                /\ exts'[last'.id] = Some(st.ctx)
                /\ calls' = st.calls
                /\ rec = <<>> => /\ calls' = <<>>
                                 /\ levels' = levels
                                 /\ exts'[last'.id][1].scope = base
                                 /\ exts'[last'.id][1].value = 1
       /\ last'.op = "on_event" =>
            LET scope == IF HasCtx(last'.cur) THEN Ctx(last'.cur).scope ELSE RootScope
                rec   == TypedOnly(last'.rec)
            IN  /\ ~last'.panic
                /\ calls' = MetricVisit(<<>>, scope, ValueVisit(1, rec), rec)
                /\ rec = <<>> => calls' = <<>>
                /\ exts' = exts /\ levels' = levels]_vars

\* A span has been created from a record holding a malformed field next to a
\* correctly typed action field: only the latter acted.
C14_Witness ==
    /\ last.op = "new_span"
    /\ Len(last.rec) = 2
    /\ Len(TypedOnly(last.rec)) = 1
    /\ Len(calls) = 1

\* The action fields of a record.
Actions(rec) ==
    SelectSeq(rec, LAMBDA f : f.kind = "str" /\ f.name \in {TIME, LEVEL, COUNTER, GAUGE})

RECURSIVE WeightedCalls(_, _, _)
WeightedCalls(rec, scope, w) ==
    IF rec = <<>> THEN <<>>
    ELSE LET f == Head(rec)
             rest == WeightedCalls(Tail(rec), scope, w)
         IN  IF f.kind = "str" /\ f.name = LEVEL
                THEN <<Call("adjust", scope, f.str, w)>> \o rest
             ELSE IF f.kind = "str" /\ f.name = COUNTER
                THEN <<Call("count", scope, f.str, w)>> \o rest
             ELSE IF f.kind = "str" /\ f.name = GAUGE
                THEN <<Call("value", scope, f.str, w)>> \o rest
             ELSE rest

\* C16: the level, counter and gauge fields of a span's record, and the counter
\* and gauge fields of an event's, are applied with the weight the record
\* declares, its metrics.value or else 1, wherever that field sits in the
\* record; the span stores that weight, and on_close adjusts the span's level
\* by minus it.
C16_WeightWhereverDeclared ==
    [][/\ last'.op = "new_span" =>
            /\ exts'[last'.id][1].value = DeclaredWeight(last'.rec)
            /\ calls' = WeightedCalls(last'.rec, exts'[last'.id][1].scope,
                                      DeclaredWeight(last'.rec))
       /\ (last'.op = "on_event" /\ ~last'.panic) =>
            calls' = Instructions(last'.rec,
                                  IF HasCtx(last'.cur) THEN Ctx(last'.cur).scope
                                                       ELSE RootScope,
                                  DeclaredWeight(last'.rec))
       /\ (last'.op = "on_close" /\ HasCtx(last'.id) /\ Ctx(last'.id).level # None) =>
            calls' = <<Call("adjust", Ctx(last'.id).level[1].scope,
                            Ctx(last'.id).level[1].name, -Ctx(last'.id).value)>>]_vars

\* C19: every counter call carries the signed weight of its record as the
\* amount: the weight the new span stores, the weight on_event read from the
\* event.
C19_CounterAmountIsWeight ==
    [][\A i \in 1..Len(calls') :
        calls'[i].op = "count"
            => calls'[i].arg = IF last'.op = "new_span"
                                THEN exts'[last'.id][1].value
                                ELSE ValueVisit(1, last'.rec)]_vars

\* C20: the weight a new span stores, and the weight an event's gauge fields
\* are set with, is the integer of the record's metrics.value field, signed or
\* unsigned, and is not negative when the field is unsigned.
C20_WeightIsDeclaredInteger ==
    [][/\ last'.op = "new_span" =>
            /\ exts'[last'.id][1].value = DeclaredWeight(last'.rec)
            /\ (last'.rec # <<>> /\ last'.rec[Len(last'.rec)].kind = "u64")
                    => exts'[last'.id][1].value >= 0
       /\ last'.op = "on_event" =>
            \A i \in 1..Len(calls') :
                calls'[i].op = "value" => calls'[i].arg = DeclaredWeight(last'.rec)]_vars

\* The last element of a sequence as an option.
LastOf(fs) == IF fs = <<>> THEN None ELSE Some(fs[Len(fs)])

\* C17: new_span starts a timer for every metrics.time field and adjusts a
\* level by the weight for every metrics.level field of the record, and stores
\* the timer and the level of the last such field; on_close stops exactly the
\* stored timer, adjusts exactly the stored level, by minus the weight, and
\* leaves every other level, the earlier ones of the span included, as it was.
C17_OnlyLastRetained ==
    [][/\ last'.op = "new_span" =>
            LET own  == exts'[last'.id][1]
                acts == Actions(last'.rec)
                time == LastOf(StrFields(last'.rec, TIME))
                lvl  == LastOf(StrFields(last'.rec, LEVEL))
            IN  /\ Len(calls') = Len(acts)
                /\ \A i \in 1..Len(acts) :
                        /\ acts[i].name = TIME
                            => calls'[i] = Call("start", own.scope, acts[i].str, clock)
                        /\ acts[i].name = LEVEL
                            => calls'[i] = Call("adjust", own.scope, acts[i].str, own.value)
                /\ own.timer = IF time = None THEN None
                               ELSE Some([scope |-> own.scope, name |-> time[1].str,
                                          start |-> clock])
                /\ own.level = IF lvl = None THEN None
                               ELSE Some([scope |-> own.scope, name |-> lvl[1].str])
       /\ (last'.op = "on_close" /\ HasCtx(last'.id)) =>
            LET c == Ctx(last'.id)
            IN  /\ OfKind(calls', "stop")
                    = IF c.timer = None THEN <<>>
                      ELSE <<Call("stop", c.timer[1].scope, c.timer[1].name,
                                  c.timer[1].start)>>
                /\ OfKind(calls', "adjust")
                    = IF c.level = None THEN <<>>
                      ELSE <<Call("adjust", c.level[1].scope, c.level[1].name, -c.value)>>
                /\ \A k \in DOMAIN levels :
                        (c.level = None \/ k # <<c.level[1].scope, c.level[1].name>>)
                            => levels'[k] = levels[k]]_vars

\* C18: on_close issues at most a stop of the closing span's stored timer and
\* an adjustment of its stored level, one of each at most and no counter or
\* gauge call; it leaves every other span and its stored context, every level
\* but the closing span's own, the threads' current spans and the clock as
\* they were.
C18_CloseTouchesOwnTimerAndLevelOnly ==
    [][last'.op = "on_close" =>
        LET id == last'.id
        IN  /\ Len(OfKind(calls', "stop")) <= 1
            /\ Len(OfKind(calls', "adjust")) <= 1
            /\ \A i \in 1..Len(calls') :
                    \/ /\ calls'[i].op = "stop"
                       /\ HasCtx(id) /\ Ctx(id).timer # None
                       /\ calls'[i].scope = Ctx(id).timer[1].scope
                       /\ calls'[i].name = Ctx(id).timer[1].name
                    \/ /\ calls'[i].op = "adjust"
                       /\ HasCtx(id) /\ Ctx(id).level # None
                       /\ calls'[i].scope = Ctx(id).level[1].scope
                       /\ calls'[i].name = Ctx(id).level[1].name
            /\ \A s \in SpanIds \ {id} : exts'[s] = exts[s] /\ spans'[s] = spans[s]
            /\ \A k \in DOMAIN levels :
                    (~HasCtx(id) \/ Ctx(id).level = None
                        \/ k # <<Ctx(id).level[1].scope, Ctx(id).level[1].name>>)
                    => levels'[k] = levels[k]
            /\ DOMAIN levels' = DOMAIN levels
            /\ stack' = stack /\ clock' = clock]_vars

\* A span with a timer and a level has been closed while another span, still
\* live, holds a timer and a level of its own.
C18_Witness ==
    /\ last.op = "on_close"
    /\ Len(calls) = 2
    /\ \E s \in SpanIds :
            Live(s) /\ HasCtx(s) /\ Ctx(s).timer # None /\ Ctx(s).level # None

====
